---- MODULE Spec2Model ----
(***************************************************************************)
(* A model of pwd_guess.py: the weighted trie (NodeTrie), the partitioned  *)
(* trie (DiskBackedTrie), the binary trie codec (BinaryTrieSerializer /     *)
(* NodeTrieSerializer) and the probability-pruned search (Guesser,          *)
(* ParallelGuesser).                                                        *)
(*                                                                         *)
(* Strings are sequences of code points, files are sequences of bytes.     *)
(* Probabilities are exact fractions [n, d]; d = 0 stands for the float    *)
(* NaN that 0/0 produces in relevel_prediction.                            *)
(***************************************************************************)
EXTENDS Integers, Sequences, FiniteSets, Bags, TLC

VARIABLES
    \* ---- NodeTrie + BinaryTrieSerializer (specification Spec)
    trie,            \* the NodeTrie being built
    incs,            \* log of the increment(key, weight) calls made so far
    toc_chunk_size,  \* config.toc_chunk_size
    file,            \* the serialized trie file: [exists, bytes]
    des,             \* what deserialize() yielded: [done, recs, err]
    ra,              \* what random_access() yielded: [done, recs, err, order]
    tpc,             \* "build", "written", "deserialized", "shuffled", "idle"
    \* ---- DiskBackedTrie (specification SpecDisk)
    dbt,             \* the DiskBackedTrie object: current_node,
                     \* current_branch_key, weights, keys
    store,           \* the intermediate storage: [data, writes] by file name
    intermediate,    \* the SqliteDict of set_intermediate_info: [saved, keys, weights]
    storage_kind,    \* config.trie_intermediate_storage: "memory" or "dir"
    draised,         \* an exception escaped a DiskBackedTrie call
    dincs,           \* log of the DiskBackedTrie.increment calls: [key, weight,
                     \* resumed], resumed: made after a finish() that saved
    it,              \* the current iterate() generator:
                     \* [active, done, k, started_at]
    dout,            \* what the current iterate() generator has yielded
    dlast,           \* the last call made on the DiskBackedTrie: "init",
                     \* "increment", "finish" or "iterate"
    \* ---- Guesser / ParallelGuesser (specification SpecGuess)
    cfg,             \* the configuration: max_len, min_len,
                     \* lower_probability_threshold,
                     \* relevel_not_matching_passwords, parallel_guessing
    model,           \* the oracle: the distribution model.predict returns,
                     \* by the last character of the prefix
    seed,            \* the (start, start_prob) the search is seeded with
    proc,            \* the process running a search: Root (the Guesser of
                     \* the main process), a worker's index, or NoProc
    stack,           \* the call stack of recur in that process
    expanded,        \* the (process, prefix, probability) triples on which
                     \* conditional_probs was called
    emitted,         \* the serialize(password, prob) calls, each with the
                     \* process that made it
    generated,       \* self.generated of the main process's Guesser
    streams,         \* the output streams: Root's and one per worker, each
                     \* [buf, disk]
    fork_points,     \* ParallelGuesser.fork_points
    tasks,           \* arg_list: per fork point [node, ofile, status, answer]
    real_output,     \* the lines written to the final output sink
    ppc,             \* the main process: "search", "forking" (inside the try
                     \* block of do_forking), "done", "raised" (Pool() raised
                     \* and the exception left guess()), "interrupted"
                     \* (do_forking caught KeyboardInterrupt), "failed" (the
                     \* exception of a worker left guess())
    unlinked,        \* the temporary files that were deleted, by the key
                     \* they have in streams
    \* ---- main(): configuration loading and dispatch (specification SpecMain)
    margs,           \* the command line: where the configuration comes from,
                     \* what the configuration file holds, --pwd-file,
                     \* --enumerate-ofile, --pre-processing-only
    config,          \* the variable config of main(): [some, val], not some
                     \* for None
    mpc,             \* the position of main()
    mlog             \* the work done so far: "ingest", "serialize", "train",
                     \* "search"

trieVars == <<trie, incs, toc_chunk_size, file, des, ra, tpc>>

diskVars == <<dbt, store, intermediate, storage_kind, draised, dincs, it, dout, dlast>>

guessVars == <<unlinked, cfg, model, seed, proc, stack, expanded, emitted, generated,
               streams, fork_points, tasks, real_output, ppc>>

mainVars == <<margs, config, mpc, mlog>>

vars == <<trieVars, diskVars, guessVars, mainVars>>

----------------------------------------------------------------------------
(* Bounds and input sets                                                   *)

MaxIncs == 2        \* increments made on one trie
MaxChunk == 2       \* toc_chunk_size ranges over 1..MaxChunk
MaxIntervals == 4   \* random_access is run on files of at most this many chunks
MaxDiskIncs == 3    \* increments made on one DiskBackedTrie
MaxLen == 2         \* config.max_len ranges over 1..MaxLen
MaxBuffered == 2    \* lines a text stream holds back before it writes them out

PASSWORD_END == 10  \* '\n'

\* keys fed to NodeTrie.increment: "", "a", "ab", "e-acute \n", "ba\n"
Corpus == { <<>>, <<97>>, <<97, 98>>, <<233, 10>>, <<98, 97, 10>> }

\* weights fed to increment; 300 needs two bytes of the 8-byte field
Weights == {0, 1, 300}

\* ModelDefaults.fork_length
fork_length == 2

\* keys fed to DiskBackedTrie.increment: "ab\n", "aba\n", "ba\n", "ab"
DiskCorpus == { <<97, 98, 10>>, <<97, 98, 97, 10>>, <<98, 97, 10>>, <<97, 98>> }

DiskWeights == {1, 2}

----------------------------------------------------------------------------
(* Small helpers                                                           *)

Min(a, b) == IF a < b THEN a ELSE b

IsPrefix(p, s) == Len(p) <= Len(s) /\ SubSeq(s, 1, Len(p)) = p

Prefixes(s) == { SubSeq(s, 1, i) : i \in 0..Len(s) }

Range(s) == { s[i] : i \in 1..Len(s) }

RECURSIVE SeqToBag(_)
SeqToBag(s) ==
    IF s = <<>> THEN EmptyBag ELSE SetToBag({Head(s)}) (+) SeqToBag(Tail(s))

RECURSIVE SumSeq(_)
SumSeq(s) == IF s = <<>> THEN 0 ELSE Head(s) + SumSeq(Tail(s))

----------------------------------------------------------------------------
(* NodeTrie                                                                *)
(* A trie is [ord, weight]: ord lists the non-root nodes (by their prefix) *)
(* in creation order, which is the order the nodes dictionaries iterate    *)
(* in; weight maps every node, the root <<>> included, to its weight.      *)

NewNodeTrie == [ord |-> <<>>, weight |-> (<<>> :> 0)]

\* node.weight += weight
AddWeight(t, p, weight) == [t EXCEPT !.weight[p] = @ + weight]

\* root.nodes[next_char] on a defaultdict(NodeTrie): creates the child on demand
GetChild(t, p) ==
    IF p \in DOMAIN t.weight THEN t
    ELSE [ord |-> Append(t.ord, p), weight |-> t.weight @@ (p :> 0)]

RECURSIVE IncrementLoop(_, _, _, _)
IncrementLoop(t, root, inc_str, weight) ==
    IF Len(inc_str) = 0
    THEN AddWeight(t, root, weight)                          \* line 71
    ELSE LET child == Append(root, Head(inc_str))
         IN IncrementLoop(GetChild(AddWeight(t, root, weight), child),
                          child, Tail(inc_str), weight)      \* lines 68-70

increment_optimized(anode, aword, weight) ==
    IncrementLoop(AddWeight(anode, <<>>, weight), <<>>, aword, weight)

\* the keys of node p's nodes dictionary, in insertion order
Children(t, p) ==
    SelectSeq(t.ord, LAMBDA q : Len(q) = Len(p) + 1 /\ IsPrefix(p, q))

RECURSIVE random_iterate(_, _)
RECURSIVE RandomIterateOver(_, _)
random_iterate(t, cur) ==
    (IF cur # <<>> THEN << <<cur, t.weight[cur]>> >> ELSE <<>>)
        \o RandomIterateOver(t, Children(t, cur))
RandomIterateOver(t, kids) ==
    IF kids = <<>> THEN <<>>
    ELSE random_iterate(t, Head(kids)) \o RandomIterateOver(t, Tail(kids))

\* NodeTrie.iterate('reg')
NodeTrieIterate(t) == random_iterate(t, <<>>)

----------------------------------------------------------------------------
(* BinaryTrieSerializer / NodeTrieSerializer                               *)

\* struct.pack('<Q', v) for n = 8, struct.pack('<B', v) for n = 1
RECURSIVE PackLE(_, _)
PackLE(v, n) == IF n = 0 THEN <<>> ELSE <<v % 256>> \o PackLE(v \div 256, n - 1)

\* struct.unpack of a little-endian unsigned integer
RECURSIVE UnpackLE(_)
UnpackLE(b) == IF b = <<>> THEN 0 ELSE Head(b) + 256 * UnpackLE(Tail(b))

\* struct.pack('<QQ', a, b)
PackQQ(a, b) == PackLE(a, 8) \o PackLE(b, 8)

_fmt_size == 16       \* struct.calcsize('<QQ')
str_len_fmt_size == 1 \* struct.calcsize('B')
chunk_size == 8       \* struct.calcsize('<Q')

\* str.encode('utf8'), for code points below U+0800
RECURSIVE Utf8Encode(_)
Utf8Encode(astring) ==
    IF astring = <<>> THEN <<>>
    ELSE LET c == Head(astring)
         IN (IF c < 128 THEN <<c>>
             ELSE <<192 + (c \div 64), 128 + (c % 64)>>)
            \o Utf8Encode(Tail(astring))

\* bytes.decode('utf8'): [ok, val]; ok = FALSE is UnicodeDecodeError
RECURSIVE Utf8Decode(_)
Utf8Decode(b) ==
    IF b = <<>> THEN [ok |-> TRUE, val |-> <<>>]
    ELSE IF Head(b) < 128
    THEN LET r == Utf8Decode(Tail(b))
         IN [ok |-> r.ok, val |-> <<Head(b)>> \o r.val]
    ELSE IF Head(b) >= 194 /\ Head(b) < 224 /\ Len(b) >= 2
            /\ b[2] >= 128 /\ b[2] < 192
    THEN LET r == Utf8Decode(SubSeq(b, 3, Len(b)))
         IN [ok |-> r.ok, val |-> <<(Head(b) - 192) * 64 + (b[2] - 128)>> \o r.val]
    ELSE [ok |-> FALSE, val |-> <<>>]

\* write_string with the length prefix counting characters instead of bytes
write_string_chars(astring) ==
    PackLE(Len(astring), str_len_fmt_size) \o Utf8Encode(astring)

write_string(astring) ==
    LET string_bytes == Utf8Encode(astring)
    IN PackLE(Len(string_bytes), str_len_fmt_size) \o string_bytes

\* NodeTrieSerializer.write_value
write_value(weight) == PackLE(weight, chunk_size)

write_record(pwd, val) == write_string(pwd) \o write_value(val)

\* the checkpoint test taken one record early
TocCheckpointEarly(records, N) == (records + 1) % N = 0

\* records % self.toc_chunk_size == 0
TocCheckpointDue(records, N) == records % N = 0

\* the for loop of do_serialize over the items the trie iterates;
\* st = [bytes, records, toc], toc the table_of_contents dictionary
RECURSIVE SerializeLoop(_, _, _)
SerializeLoop(items, N, st) ==
    IF items = <<>> THEN st
    ELSE LET item == Head(items)
             bytes == st.bytes \o write_record(item[1], item[2])
             records == st.records + 1
             toc == IF TocCheckpointDue(records, N)
                    THEN (records :> Len(bytes)) @@ st.toc   \* afile.tell()
                    ELSE st.toc
         IN SerializeLoop(Tail(items), N,
                          [bytes |-> bytes, records |-> records, toc |-> toc])

RECURSIVE SortedSeq(_)
SortedSeq(S) ==
    IF S = {} THEN <<>>
    ELSE LET m == CHOOSE x \in S : \A y \in S : x <= y
         IN <<m>> \o SortedSeq(S \ {m})

RECURSIVE WriteToc(_, _)
WriteToc(keys, toc) ==
    IF keys = <<>> THEN <<>>
    ELSE PackQQ(Head(keys), toc[Head(keys)]) \o WriteToc(Tail(keys), toc)

\* the bytes of the file once do_serialize returns
do_serialize(items, N) ==
    LET st == SerializeLoop(items, N,
                  [bytes |-> PackQQ(0, 0), records |-> 0, toc |-> <<>>])
        toc_start == Len(st.bytes)
        whole == st.bytes \o WriteToc(SortedSeq(DOMAIN st.toc), st.toc)
    IN PackQQ(st.records, toc_start) \o SubSeq(whole, _fmt_size + 1, Len(whole))

\* afile.read(n) with the file position at pos
ReadAt(f, pos, n) == SubSeq(f, pos + 1, Min(pos + n, Len(f)))

\* read_string: kind "none" is the None of an exhausted file
read_string(f, pos) ==
    LET byte_string == ReadAt(f, pos, str_len_fmt_size)
    IN IF Len(byte_string) = 0
       THEN [kind |-> "none", val |-> <<>>, pos |-> pos]
       ELSE LET strlen == UnpackLE(byte_string)
                raw == ReadAt(f, pos + 1, strlen)
                d == Utf8Decode(raw)
            IN [kind |-> IF d.ok THEN "ok" ELSE "error",
                val |-> d.val, pos |-> pos + 1 + Len(raw)]

\* NodeTrieSerializer.read_value: struct.unpack_from needs 8 bytes
read_value(f, pos) ==
    LET b == ReadAt(f, pos, chunk_size)
    IN IF Len(b) < chunk_size
       THEN [kind |-> "error", val |-> 0, pos |-> pos + Len(b)]
       ELSE [kind |-> "ok", val |-> UnpackLE(b), pos |-> pos + chunk_size]

read_record(f, pos) ==
    LET astr == read_string(f, pos)
    IN IF astr.kind # "ok" THEN [kind |-> astr.kind, val |-> <<>>, pos |-> astr.pos]
       ELSE LET v == read_value(f, astr.pos)
            IN [kind |-> v.kind, val |-> <<astr.val, v.val>>, pos |-> v.pos]

\* struct.unpack(self._fmt, afile.read(self._fmt_size)) at pos
ReadQQ(f, pos) ==
    LET b == ReadAt(f, pos, _fmt_size)
    IN IF Len(b) # _fmt_size THEN [ok |-> FALSE, a |-> 0, b |-> 0]
       ELSE [ok |-> TRUE, a |-> UnpackLE(SubSeq(b, 1, 8)),
             b |-> UnpackLE(SubSeq(b, 9, 16))]

\* for _ in range(num_records): ... of deserialize
RECURSIVE DeserializeLoop(_, _, _, _)
DeserializeLoop(f, pos, left, recs) ==
    IF left = 0 THEN [recs |-> recs, err |-> FALSE, pos |-> pos]
    ELSE LET answer == read_record(f, pos)
         IN IF answer.kind = "none" THEN [recs |-> recs, err |-> FALSE, pos |-> pos]
            ELSE IF answer.kind = "error"
            THEN [recs |-> recs, err |-> TRUE, pos |-> answer.pos]
            ELSE DeserializeLoop(f, answer.pos, left - 1, Append(recs, answer.val))

\* everything deserialize() yields: [recs, err]
deserialize(f) ==
    LET h == ReadQQ(f, 0)
    IN IF ~h.ok THEN [recs |-> <<>>, err |-> TRUE]
       ELSE LET r == DeserializeLoop(f, _fmt_size, h.a, <<>>)
            IN [recs |-> r.recs, err |-> r.err]

\* the while True loop of read_toc
RECURSIVE ReadTocLoop(_, _, _)
ReadTocLoop(f, pos, toc) ==
    IF Len(ReadAt(f, pos, _fmt_size)) = 0 THEN [ok |-> TRUE, toc |-> toc]
    ELSE LET e == ReadQQ(f, pos)
         IN IF ~e.ok THEN [ok |-> FALSE, toc |-> toc]
            ELSE ReadTocLoop(f, pos + _fmt_size, (e.a :> e.b) @@ toc)

read_toc(f) ==
    LET h == ReadQQ(f, 0)
    IN IF ~h.ok THEN [ok |-> FALSE, toc |-> <<>>, toc_start |-> 0]
       ELSE LET r == ReadTocLoop(f, h.b, <<>>)
            IN [ok |-> r.ok, toc |-> r.toc, toc_start |-> h.b]

\* read_from_pos: the records between start_pos and end_pos
RECURSIVE read_from_pos(_, _, _)
read_from_pos(f, start_pos, end_pos) ==
    IF ~(start_pos < end_pos) THEN [recs |-> <<>>, err |-> FALSE]
    ELSE LET item == read_record(f, start_pos)
         IN IF item.kind # "ok" THEN [recs |-> <<>>, err |-> TRUE]
            ELSE LET rest == read_from_pos(f, item.pos, end_pos)
                 IN [recs |-> <<item.val>> \o rest.recs, err |-> rest.err]

\* end_pos without the closing toc_start
EndPositionsNoTocStart(toc_locations, toc_start) == toc_locations

\* end_pos = toc_locations + [toc_start]
EndPositions(toc_locations, toc_start) == Append(toc_locations, toc_start)

\* the (start, end) intervals random_access builds, before the shuffle
Intervals(f) ==
    LET t == read_toc(f)
        keys == SortedSeq(DOMAIN t.toc)
        toc_locations == [i \in 1..Len(keys) |-> t.toc[keys[i]]]
        start_pos == <<_fmt_size>> \o toc_locations
        end_pos == EndPositions(toc_locations, t.toc_start)
    IN [i \in 1..Min(Len(start_pos), Len(end_pos)) |-> <<start_pos[i], end_pos[i]>>]

RECURSIVE ReadIntervals(_, _)
ReadIntervals(f, intervals) ==
    IF intervals = <<>> THEN [recs |-> <<>>, err |-> FALSE]
    ELSE LET one == read_from_pos(f, Head(intervals)[1], Head(intervals)[2])
         IN IF one.err THEN [recs |-> one.recs, err |-> TRUE]
            ELSE LET rest == ReadIntervals(f, Tail(intervals))
                 IN [recs |-> one.recs \o rest.recs, err |-> rest.err]

\* everything random_access() yields when random.shuffle leaves the intervals
\* in the order given by the permutation order
random_access(f, order) ==
    LET intervals == Intervals(f)
    IN ReadIntervals(f, [i \in 1..Len(intervals) |-> intervals[order[i]]])

\* a generator that has not run
NotRead == [done |-> FALSE, recs |-> <<>>, err |-> FALSE, order |-> <<>>]

----------------------------------------------------------------------------
(* NodeTrie.sampled_training and NodeTrie.iterate                          *)

\* the last character of a node's prefix: its key in its parent's dictionary
KeyOf(q) == q[Len(q)]

\* [(k, self.nodes[k].weight) for k in self.nodes.keys()]: the children in
\* the order of the dictionary, not sorted
node_children_unsorted(t, value) ==
    LET kids == Children(t, value)
    IN [i \in 1..Len(kids) |-> <<KeyOf(kids[i]), t.weight[kids[i]]>>]

\* [(k, self.nodes[k].weight) for k in sorted(self.nodes.keys())]
node_children(t, value) ==
    LET kids == Children(t, value)
        keys == SortedSeq({ KeyOf(kids[i]) : i \in 1..Len(kids) })
    IN [i \in 1..Len(keys) |-> <<keys[i], t.weight[Append(value, keys[i])]>>]

RECURSIVE sampled_training(_, _)
RECURSIVE SampledTrainingOver(_, _)
sampled_training(t, value) ==
    IF Len(node_children(t, value)) = 0 THEN <<>>
    ELSE << <<value, node_children(t, value)>> >>
            \o SampledTrainingOver(t, Children(t, value))
SampledTrainingOver(t, kids) ==
    IF kids = <<>> THEN <<>>
    ELSE sampled_training(t, Head(kids)) \o SampledTrainingOver(t, Tail(kids))

\* NodeTrie.iterate(serial_type)
iterate(t, serial_type) ==
    IF serial_type = "fuzzy" THEN sampled_training(t, <<>>)
    ELSE random_iterate(t, <<>>)

----------------------------------------------------------------------------
(* Probabilities                                                           *)

RECURSIVE GCD(_, _)
GCD(a, b) == IF b = 0 THEN a ELSE GCD(b, a % b)

\* the float NaN
NaN == [n |-> 0, d |-> 0]

\* the fraction n/d in lowest terms
Frac(n, d) ==
    IF d = 0 THEN NaN
    ELSE LET g == GCD(n, d) IN [n |-> n \div g, d |-> d \div g]

FMul(a, b) == Frac(a.n * b.n, a.d * b.d)

FAdd(a, b) ==
    IF a.d = 0 \/ b.d = 0 THEN NaN ELSE Frac(a.n * b.d + b.n * a.d, a.d * b.d)

\* a / b; the only division by zero that arises is 0 / 0
FDiv(a, b) ==
    IF a.d = 0 \/ b.d = 0 THEN NaN ELSE Frac(a.n * b.d, a.d * b.n)

\* a < b and a >= b on floats: every comparison with NaN is False
FLt(a, b) == a.d # 0 /\ b.d # 0 /\ a.n * b.d < b.n * a.d
FGe(a, b) == a.d # 0 /\ b.d # 0 /\ a.n * b.d >= b.n * a.d

RECURSIVE FSum(_)
FSum(s) == IF s = <<>> THEN Frac(0, 1) ELSE FAdd(Head(s), FSum(Tail(s)))

----------------------------------------------------------------------------
(* Guesser                                                                 *)

\* config.char_bag: 'a', 'b' and PASSWORD_END
char_bag == {97, 98, PASSWORD_END}

\* CharacterTable.chars = sorted(set(chars))
chars == SortedSeq(char_bag)

\* CharacterTable.get_char_index
get_char_index(character) == CHOOSE i \in 1..Len(chars) : chars[i] = character

\* str.strip(PASSWORD_END)
RECURSIVE StripLeft(_)
StripLeft(s) ==
    IF s # <<>> /\ Head(s) = PASSWORD_END THEN StripLeft(Tail(s)) ELSE s
RECURSIVE StripRight(_)
StripRight(s) ==
    IF s # <<>> /\ s[Len(s)] = PASSWORD_END
    THEN StripRight(SubSeq(s, 1, Len(s) - 1)) ELSE s
Strip(s) == StripRight(StripLeft(s))

\* the distributions the oracle answers with, over chars = <<END, 'a', 'b'>>
Uniform == <<Frac(1, 3), Frac(1, 3), Frac(1, 3)>>
OnlyEnd == <<Frac(1, 1), Frac(0, 1), Frac(0, 1)>>
Skewed == <<Frac(1, 4), Frac(1, 2), Frac(1, 4)>>
Dists == {Uniform, OnlyEnd, Skewed}

\* what the oracle may depend on: the last character of the prefix (0: none)
Contexts == {0} \cup (char_bag \ {PASSWORD_END})

Oracles == [Contexts -> Dists]

\* self.model.predict(np_inp)[0][0]
Predict(m, astring) ==
    m[IF astring # <<>> /\ astring[Len(astring)] \in Contexts
      THEN astring[Len(astring)] ELSE 0]

Thresholds == {Frac(0, 1), Frac(1, 20), Frac(1, 3)}

MinLens == {0, 1, 4}

Configs ==
    [max_len : 1..MaxLen, min_len : MinLens,
     lower_probability_threshold : Thresholds,
     relevel_not_matching_passwords : BOOLEAN,
     parallel_guessing : BOOLEAN]

\* the (start, start_prob) pairs Guesser.do_guessing is called with:
\* ('', 1), ('a', 1/2), ('b', 1/100), ('ab\n', 1/2)
Starts == { << <<>>, Frac(1, 1) >>, << <<97>>, Frac(1, 2) >>,
            << <<98>>, Frac(1, 100) >>, << <<97, 98, 10>>, Frac(1, 2) >> }

\* Filterer.pwd_is_valid, without its counters
pwd_is_valid(c, pwd0) ==
    LET pwd == Strip(pwd0)
    IN /\ \A i \in 1..Len(pwd) : pwd[i] \in char_bag
       /\ Len(pwd) <= c.max_len
       /\ Len(pwd) >= c.min_len

\* a releveling that leaves the prediction as the oracle gave it
relevel_prediction_off(c, preds, astring) == preds

relevel_prediction(c, preds, astring) ==
    LET forced ==
            IF ~pwd_is_valid(c, astring)
            THEN [preds EXCEPT ![get_char_index(PASSWORD_END)] = Frac(0, 1)]
            ELSE IF Len(astring) = c.max_len
            THEN [i \in 1..Len(chars) |->
                     IF chars[i] = PASSWORD_END THEN Frac(1, 1) ELSE Frac(0, 1)]
            ELSE preds
        sum_per == FSum(forced)
    IN [i \in 1..Len(forced) |-> FDiv(forced[i], sum_per)]

conditional_probs(c, m, astring) ==
    LET answer == Predict(m, astring)
    IN IF c.relevel_not_matching_passwords
       THEN relevel_prediction(c, answer, Strip(astring))
       ELSE answer

cond_prob_from_preds(char, preds) == preds[get_char_index(char)]

\* the line GuessSerializer.serialize writes: password.strip(END) TAB prob
GuessLine(password, prob) == <<Strip(password), prob>>

\* ostream.write(line) on a buffered text stream: the line is held back, and
\* the held lines are written out once they exceed the buffer
StreamWrite(st, line) ==
    LET held == Append(st.buf, line)
    IN IF Len(held) > MaxBuffered
       THEN [buf |-> <<>>, disk |-> st.disk \o held]
       ELSE [buf |-> held, disk |-> st.disk]

\* ostream.flush(); ostream.close()
StreamClose(st) == [buf |-> <<>>, disk |-> st.disk \o st.buf]

\* the processes: the main process, which runs the Guesser or the
\* ParallelGuesser, and worker i for the i-th task; NoProc when none runs
Root == 0
NoProc == -1

\* open(ofname, 'w') / NamedTemporaryFile: an empty file
NewStream == [buf |-> <<>>, disk |-> <<>>]

\* a call of recur(astring, prob) that has not yet run
Call(astring, prob) ==
    [astring |-> astring, prob |-> prob, pc |-> "enter",
     prediction |-> <<>>, i |-> 0]

Top == stack[Len(stack)]
Pop == SubSeq(stack, 1, Len(stack) - 1)

\* a threshold test that never prunes
NeverBelow(prob, threshold) == FALSE

\* prob < self.config.lower_probability_threshold
BelowThreshold(prob, threshold) == FLt(prob, threshold)

\* an end-of-password test that accepts every probability
EndAlwaysAccepted(chain_prob, threshold) == TRUE

\* chain_prob >= self.config.lower_probability_threshold
EndAccepted(chain_prob, threshold) == FGe(chain_prob, threshold)

\* a length test that lets one more symbol through
TooLongLate(c, astring) == Len(astring) > c.max_len + 1

\* len(astring) > self.config.max_len
TooLong(c, astring) == Len(astring) > c.max_len

\* a fork test that fires one symbol too late
IsForkPointLate(astring) == Len(astring) = fork_length + 1

\* ParallelGuesser.recur: len(astring) == self.config.fork_length
IsForkPoint(astring) == Len(astring) = fork_length

\* Guesser.recur(astring, prob) as a function: the (password, probability)
\* pairs the call serializes, in order
RECURSIVE recur(_, _, _, _)
RECURSIVE RecurLoop(_, _, _, _, _, _)
recur(c, m, astring, prob) ==
    IF BelowThreshold(prob, c.lower_probability_threshold) THEN <<>>
    ELSE IF TooLong(c, astring)
    THEN IF Len(Strip(astring)) = c.max_len
         THEN << <<astring, prob>> >> ELSE <<>>
    ELSE RecurLoop(c, m, astring, prob, conditional_probs(c, m, astring), 1)
\* the loop of lines 1071-1079 from the i-th symbol on
RecurLoop(c, m, astring, prob, prediction, i) ==
    IF i > Len(chars) THEN <<>>
    ELSE LET char == chars[i]
             chain_pass == Append(astring, char)
             chain_prob == FMul(cond_prob_from_preds(char, prediction), prob)
         IN (IF char = PASSWORD_END
             THEN IF EndAccepted(chain_prob, c.lower_probability_threshold)
                  THEN << <<chain_pass, chain_prob>> >> ELSE <<>>
             ELSE recur(c, m, chain_pass, chain_prob))
            \o RecurLoop(c, m, astring, prob, prediction, i + 1)

\* self.output_serializer.serialize(password, prob); self.generated += 1
\* (the Guesser of a worker counts in its own process: its count is the
\* answer the task returns)
Emit(password, prob) ==
    /\ emitted' = Append(emitted, <<proc, password, prob>>)
    /\ streams' = [streams EXCEPT
                     ![proc] = StreamWrite(@, GuessLine(password, prob))]
    /\ IF proc = Root
       THEN generated' = generated + 1 /\ UNCHANGED tasks
       ELSE tasks' = [tasks EXCEPT ![proc].answer = @ + 1]
            /\ UNCHANGED generated

NoEmit == UNCHANGED <<emitted, streams, generated, tasks>>

GuessInit ==
    /\ cfg \in Configs
    /\ model \in Oracles
    /\ seed \in IF cfg.parallel_guessing THEN { << <<>>, Frac(1, 1) >> } ELSE Starts
    /\ proc = Root
    /\ stack = << Call(seed[1], seed[2]) >>
    /\ expanded = {}
    /\ emitted = <<>>
    /\ generated = 0
    /\ streams = [x \in {Root} |-> NewStream]
    /\ fork_points = <<>>
    /\ tasks = <<>>
    /\ real_output = <<>>
    /\ ppc = "search"
    /\ unlinked = {}

\* the Guesser variables in the specifications that use none
GuessIdle ==
    /\ cfg = [max_len |-> MaxLen, min_len |-> 4,
              lower_probability_threshold |-> Frac(1, 20),
              relevel_not_matching_passwords |-> TRUE,
              parallel_guessing |-> FALSE]
    /\ model = [x \in Contexts |-> Uniform]
    /\ seed = << <<>>, Frac(1, 1) >>
    /\ proc = NoProc
    /\ stack = <<>>
    /\ expanded = {}
    /\ emitted = <<>>
    /\ generated = 0
    /\ streams = [x \in {Root} |-> NewStream]
    /\ fork_points = <<>>
    /\ tasks = <<>>
    /\ real_output = <<>>
    /\ ppc = "done"
    /\ unlinked = {}

\* ParallelGuesser.recur on a prefix of fork_length symbols: it becomes a
\* fork point and the call returns
RecurFork ==
    /\ proc = Root /\ cfg.parallel_guessing
    /\ stack # <<>> /\ Top.pc = "enter"
    /\ IsForkPoint(Top.astring)
    /\ fork_points' = Append(fork_points, <<Top.astring, Top.prob>>)
    /\ stack' = Pop
    /\ NoEmit
    /\ UNCHANGED <<unlinked, cfg, model, seed, proc, expanded, real_output, ppc>>
    /\ UNCHANGED <<trieVars, diskVars, mainVars>>

\* whether the call on top of the stack runs Guesser.recur
RunsGuesserRecur ==
    /\ proc # NoProc
    /\ stack # <<>> /\ Top.pc = "enter"
    /\ ~(proc = Root /\ cfg.parallel_guessing /\ IsForkPoint(Top.astring))

\* Guesser.recur, lines 1063-1064: the prefix is below the threshold
RecurPrune ==
    /\ RunsGuesserRecur
    /\ BelowThreshold(Top.prob, cfg.lower_probability_threshold)
    /\ stack' = Pop
    /\ NoEmit
    /\ UNCHANGED <<unlinked, cfg, model, seed, proc, expanded, fork_points, real_output, ppc>>
    /\ UNCHANGED <<trieVars, diskVars, mainVars>>

\* Guesser.recur, lines 1065-1069: the prefix is longer than max_len
RecurTooLong ==
    /\ RunsGuesserRecur
    /\ ~BelowThreshold(Top.prob, cfg.lower_probability_threshold)
    /\ TooLong(cfg, Top.astring)
    /\ IF Len(Strip(Top.astring)) = cfg.max_len
       THEN Emit(Top.astring, Top.prob)
       ELSE NoEmit
    /\ stack' = Pop
    /\ UNCHANGED <<unlinked, cfg, model, seed, proc, expanded, fork_points, real_output, ppc>>
    /\ UNCHANGED <<trieVars, diskVars, mainVars>>

\* Guesser.recur, line 1070: the oracle is asked for the next symbol
RecurPredict ==
    /\ RunsGuesserRecur
    /\ ~BelowThreshold(Top.prob, cfg.lower_probability_threshold)
    /\ ~TooLong(cfg, Top.astring)
    /\ stack' = [stack EXCEPT ![Len(stack)] =
                    [@ EXCEPT !.pc = "loop", !.i = 1,
                              !.prediction = conditional_probs(cfg, model, Top.astring)]]
    /\ expanded' = expanded \cup { <<proc, Top.astring, Top.prob>> }
    /\ NoEmit
    /\ UNCHANGED <<unlinked, cfg, model, seed, proc, fork_points, real_output, ppc>>
    /\ UNCHANGED <<trieVars, diskVars, mainVars>>

\* Guesser.recur, lines 1071-1079: one turn of the loop over the symbols
RecurChar ==
    /\ proc # NoProc
    /\ stack # <<>> /\ Top.pc = "loop" /\ Top.i <= Len(chars)
    /\ LET char == chars[Top.i]
           chain_pass == Append(Top.astring, char)
           chain_prob == FMul(cond_prob_from_preds(char, Top.prediction), Top.prob)
           next == [stack EXCEPT ![Len(stack)].i = @ + 1]
       IN IF char = PASSWORD_END
          THEN /\ IF EndAccepted(chain_prob, cfg.lower_probability_threshold)
                  THEN Emit(chain_pass, chain_prob)
                  ELSE NoEmit
               /\ stack' = next
          ELSE /\ NoEmit
               /\ stack' = Append(next, Call(chain_pass, chain_prob))
    /\ UNCHANGED <<unlinked, cfg, model, seed, proc, expanded, fork_points, real_output, ppc>>
    /\ UNCHANGED <<trieVars, diskVars, mainVars>>

\* Guesser.recur: the loop is over and the call returns
RecurReturn ==
    /\ proc # NoProc
    /\ stack # <<>> /\ Top.pc = "loop" /\ Top.i > Len(chars)
    /\ stack' = Pop
    /\ NoEmit
    /\ UNCHANGED <<unlinked, cfg, model, seed, proc, expanded, fork_points, real_output, ppc>>
    /\ UNCHANGED <<trieVars, diskVars, mainVars>>

\* Guesser.do_guessing, lines 1091-1094, in the main process: the search has
\* returned, the output stream is flushed and closed
DoGuessingReturn ==
    /\ proc = Root /\ ~cfg.parallel_guessing
    /\ stack = <<>> /\ ppc = "search"
    /\ streams' = [streams EXCEPT ![Root] = StreamClose(@)]
    /\ real_output' = streams'[Root].disk
    /\ proc' = NoProc
    /\ ppc' = "done"
    /\ UNCHANGED <<unlinked, cfg, model, seed, stack, expanded, emitted, generated,
                   fork_points, tasks>>
    /\ UNCHANGED <<trieVars, diskVars, mainVars>>

\* an argument dictionary that passes the prefix on with probability 1
prepare_argument_dict_prob_one(node, i) ==
    [node |-> <<node[1], Frac(1, 1)>>, ofile |-> i, status |-> "pending",
     answer |-> 0]

\* ParallelGuesser.prepare_argument_dict on the i-th fork point
prepare_argument_dict(node, i) ==
    [node |-> node, ofile |-> i, status |-> "pending", answer |-> 0]

\* ParallelGuesser.arg_list
arg_list == [i \in 1..Len(fork_points) |-> prepare_argument_dict(fork_points[i], i)]

\* ParallelGuesser.do_forking, lines 1146-1149: the root search has returned;
\* one temporary file and one task per fork point, and the pool is created.
\* Pool(0) raises ValueError, which guess() does not catch.
DoForking ==
    /\ proc = Root /\ cfg.parallel_guessing
    /\ stack = <<>> /\ ppc = "search"
    /\ tasks' = arg_list
    /\ streams' = [x \in {Root} \cup (1..Len(fork_points)) |->
                      IF x = Root THEN streams[Root] ELSE NewStream]
    /\ ppc' = IF Len(fork_points) = 0 THEN "raised" ELSE "forking"
    /\ proc' = NoProc
    /\ UNCHANGED <<unlinked, cfg, model, seed, stack, expanded, emitted, generated,
                   fork_points, real_output>>
    /\ UNCHANGED <<trieVars, diskVars, mainVars>>

\* fork_starting_point / ParallelGuesser.fork_entry_point: a pool process
\* takes the next task and calls Guesser.do_guessing(model, config, ofile,
\* node[0], node[1]), which opens ofile for writing.  The workers share
\* nothing, so they are run one after another, in task order.
ForkEntryPoint ==
    /\ ppc = "forking" /\ proc = NoProc
    /\ \E i \in 1..Len(tasks) :
          /\ tasks[i].status = "pending"
          /\ \A j \in 1..(i - 1) : tasks[j].status \in {"done", "raised"}
          /\ proc' = i
          /\ stack' = << Call(tasks[i].node[1], tasks[i].node[2]) >>
          /\ streams' = [streams EXCEPT ![tasks[i].ofile] = NewStream]
          /\ tasks' = [tasks EXCEPT ![i].status = "running"]
    /\ UNCHANGED <<unlinked, cfg, model, seed, expanded, emitted, generated,
                   fork_points, real_output, ppc>>
    /\ UNCHANGED <<trieVars, diskVars, mainVars>>

\* Guesser.do_guessing, lines 1091-1094, in a worker: the stream is flushed
\* and closed and the count of guesses is the task's answer
ForkReturn ==
    /\ proc \in 1..Len(tasks)
    /\ stack = <<>>
    /\ streams' = [streams EXCEPT ![tasks[proc].ofile] = StreamClose(@)]
    /\ tasks' = [tasks EXCEPT ![proc].status = "done"]
    /\ proc' = NoProc
    /\ UNCHANGED <<unlinked, cfg, model, seed, stack, expanded, emitted, generated,
                   fork_points, real_output, ppc>>
    /\ UNCHANGED <<trieVars, diskVars, mainVars>>

\* the lines read back from the files named by tempOstream and by
\* intermediate_files[1..k], in that order
RECURSIVE ReadStreams(_)
ReadStreams(k) ==
    IF k = 0 THEN streams[Root].disk
    ELSE ReadStreams(k - 1) \o streams[tasks[k].ofile].disk

RECURSIVE SumAnswers(_)
SumAnswers(k) == IF k = 0 THEN 0 ELSE SumAnswers(k - 1) + tasks[k].answer

\* ParallelGuesser.do_forking, lines 1151-1155, and collect_answer: every
\* task has returned; the counts are added up and the files are copied, in
\* order, to the final output
CollectAnswer ==
    /\ ppc = "forking" /\ proc = NoProc
    /\ \A i \in 1..Len(tasks) : tasks[i].status = "done"
    /\ generated' = SumAnswers(Len(tasks)) + generated
    /\ real_output' = real_output \o ReadStreams(Len(tasks))
    /\ ppc' = "done"
    /\ UNCHANGED <<unlinked, cfg, model, seed, proc, stack, expanded, emitted, streams,
                   fork_points, tasks>>
    /\ UNCHANGED <<trieVars, diskVars, mainVars>>

\* a worker never completes: the search it runs (or the oracle it asks)
\* does not return.  The pool is left with a task that is never finished.
ForkHang ==
    /\ ppc = "forking"
    /\ proc \in 1..Len(tasks)
    /\ tasks[proc].status = "running"
    /\ tasks' = [tasks EXCEPT ![proc].status = "hung"]
    /\ proc' = NoProc
    /\ UNCHANGED <<unlinked, cfg, model, seed, stack, expanded, emitted, generated,
                   streams, fork_points, real_output, ppc>>
    /\ UNCHANGED <<trieVars, diskVars, mainVars>>

\* fork_starting_point raises in a worker before the search has made a
\* step (load_model, line 1097, or the open(ofname, 'w') of do_guessing
\* fails): the pool hands the exception back as the result of the task and
\* goes on with the tasks that are left
ForkRaise ==
    /\ ppc = "forking"
    /\ proc \in 1..Len(tasks)
    /\ tasks[proc].status = "running"
    /\ stack = << Call(tasks[proc].node[1], tasks[proc].node[2]) >>
    /\ tasks' = [tasks EXCEPT ![proc].status = "raised"]
    /\ proc' = NoProc
    /\ stack' = <<>>
    /\ UNCHANGED <<unlinked, cfg, model, seed, expanded, emitted, generated,
                   streams, fork_points, real_output, ppc>>
    /\ UNCHANGED <<trieVars, diskVars, mainVars>>

\* ParallelGuesser.do_forking, lines 1151-1153: every task has returned and
\* one of them raised; result.get() raises that exception again in the main
\* process, no except clause matches it, and it leaves do_forking and guess()
ForkFailure ==
    /\ ppc = "forking" /\ proc = NoProc
    /\ \A i \in 1..Len(tasks) : tasks[i].status \in {"done", "raised"}
    /\ \E i \in 1..Len(tasks) : tasks[i].status = "raised"
    /\ ppc' = "failed"
    /\ UNCHANGED <<unlinked, cfg, model, seed, proc, stack, expanded, emitted,
                   generated, streams, fork_points, tasks, real_output>>
    /\ UNCHANGED <<trieVars, diskVars, mainVars>>

\* ParallelGuesser.do_guessing is left, by its return or by an exception:
\* the ParallelGuesser is released and with it tempOstream and
\* intermediate_files, which tempfile.NamedTemporaryFile() created with its
\* default delete = True: closing them deletes the files
ReleaseGuesser ==
    /\ cfg.parallel_guessing
    /\ ppc \in {"done", "raised", "interrupted", "failed"}
    /\ unlinked = {}
    /\ unlinked' = DOMAIN streams
    /\ UNCHANGED <<cfg, model, seed, proc, stack, expanded, emitted, generated,
                   streams, fork_points, tasks, real_output, ppc>>
    /\ UNCHANGED <<trieVars, diskVars, mainVars>>

\* a pool.terminate() that stops nothing
pool_terminate_none(ts) == ts

\* pool.terminate(): every task that has not returned is stopped
pool_terminate(ts) ==
    [i \in DOMAIN ts |->
        IF ts[i].status = "done" THEN ts[i]
        ELSE [ts[i] EXCEPT !.status = "terminated"]]

\* ParallelGuesser.do_forking, lines 1156-1158: KeyboardInterrupt arrives in
\* the main process inside the try block, while it waits in pool.join() or
\* in result.get(); the pool is terminated and do_forking returns.  What a
\* stopped worker held in its buffer never reaches its file.
KeyboardInterrupt ==
    /\ ppc = "forking"
    /\ tasks' = pool_terminate(tasks)
    /\ proc' = NoProc
    /\ stack' = <<>>
    /\ ppc' = "interrupted"
    /\ UNCHANGED <<unlinked, cfg, model, seed, expanded, emitted, generated, streams,
                   fork_points, real_output>>
    /\ UNCHANGED <<trieVars, diskVars, mainVars>>

GuessNext ==
    \/ RecurFork
    \/ RecurPrune
    \/ RecurTooLong
    \/ RecurPredict
    \/ RecurChar
    \/ RecurReturn
    \/ DoGuessingReturn
    \/ DoForking
    \/ ForkEntryPoint
    \/ ForkReturn
    \/ CollectAnswer
    \/ ForkHang
    \/ KeyboardInterrupt
    \/ ForkRaise
    \/ ForkFailure
    \/ ReleaseGuesser

----------------------------------------------------------------------------
(* main(): configuration loading, validation and dispatch                  *)

\* Python's None where a name is expected
None == "None"

\* the class attributes of ModelDefaults that main() and the factories read
ModelDefaults ==
    [fork_length |-> fork_length, min_len |-> 4, max_len |-> 40,
     lower_probability_threshold |-> Frac(1, 100000),
     trie_implementation |-> None, trie_serializer_type |-> "reg",
     trie_fname |-> ":memory:", trie_intermediate_storage |-> ":memory:",
     simulated_frequency_optimization |-> FALSE,
     model_truncate_gradient |-> -1]

\* the configurations a configuration file may hold
FileConfigs ==
    [fork_length : {2, 4}, min_len : {2, 4}, max_len : {40},
     lower_probability_threshold : {[n |-> -1, d |-> 20], Frac(0, 1), Frac(1, 20)},
     trie_implementation : {None, "trie", "disk", "bogus"},
     trie_serializer_type : {"reg", "fuzzy", "bogus"},
     trie_fname : {":memory:", "trie.bin"},
     trie_intermediate_storage : {":memory:", "im"},
     simulated_frequency_optimization : BOOLEAN,
     model_truncate_gradient : {-1, 40}]

\* the command lines: --config FILE ("file"), --config-args FILE
\* ("config_args") or neither ("none")
Args ==
    [source : {"none", "file", "config_args"}, file_config : FileConfigs,
     pwd_file : BOOLEAN, enumerate_ofile : BOOLEAN]

\* a validate() that leaves out the test of fork_length
validate_no_fork_length(c) ==
    /\ c.trie_serializer_type = "fuzzy" =>
          /\ c.simulated_frequency_optimization
          /\ c.trie_implementation # None
    /\ c.model_truncate_gradient # -1 => c.model_truncate_gradient < c.max_len

\* ModelDefaults.validate: TRUE when no assert fails
validate(c) ==
    /\ c.trie_serializer_type = "fuzzy" =>
          /\ c.simulated_frequency_optimization
          /\ c.trie_implementation # None
    /\ c.fork_length < c.min_len
    /\ c.model_truncate_gradient # -1 => c.model_truncate_gradient < c.max_len

\* BaseTrie.fromConfig: the class of the trie, None after the KeyError
BaseTrieFromConfig(c) ==
    CASE c.trie_implementation = "trie" -> "NodeTrie"
      [] c.trie_implementation = "disk" -> "DiskBackedTrie"
      [] c.trie_implementation = None -> "BaseTrie"
      [] OTHER -> None

\* BasePreprocessor.fromConfig: the class of the preprocessor, None after
\* the KeyError
BasePreprocessorFromConfig(c) ==
    CASE c.trie_implementation = "trie" -> "TriePreprocessor"
      [] c.trie_implementation = "disk" -> "HybridDiskPreprocessor"
      [] c.trie_implementation = None -> "Preprocessor"
      [] OTHER -> None

\* TrieSerializer.getFactory(config, intermediate_serializer): the class the
\* factory builds, None when the function falls off its end
getFactory(c, intermediate_serializer) ==
    IF c.trie_fname = ":memory:" /\ ~intermediate_serializer
    THEN "MemoryTrieSerializer"
    ELSE IF c.trie_intermediate_storage = ":memory:" /\ intermediate_serializer
    THEN "MemoryTrieSerializer"
    ELSE IF c.trie_serializer_type = "fuzzy" THEN "TrieFuzzySerializer"
    ELSE IF c.trie_serializer_type = "reg" THEN "NodeTrieSerializer"
    ELSE None

NoConfig == [some |-> FALSE, val |-> ModelDefaults]
SomeConfig(c) == [some |-> TRUE, val |-> c]

MainInit ==
    /\ margs \in { a \in Args :
                     a.source = "none" => a.file_config = ModelDefaults }
    /\ config = NoConfig
    /\ mpc = "start"
    /\ mlog = <<>>

\* the variables of main() in the specifications that do not run it
MainIdle ==
    /\ margs = [source |-> "none", file_config |-> ModelDefaults,
                pwd_file |-> FALSE, enumerate_ofile |-> FALSE]
    /\ config = NoConfig
    /\ mpc = "start"
    /\ mlog = <<>>

\* main, lines 1279-1282: read_config_args or ModelDefaults.fromFile; both
\* call validate() on what the file holds, and a failed assert leaves main
LoadConfig ==
    /\ mpc = "start"
    /\ IF margs.source = "none"
       THEN config' = SomeConfig(ModelDefaults) /\ mpc' = "loaded"
       ELSE IF validate(margs.file_config)
       THEN config' = SomeConfig(margs.file_config) /\ mpc' = "loaded"
       ELSE config' = config /\ mpc' = "rejected"
    /\ UNCHANGED <<margs, mlog>>
    /\ UNCHANGED <<trieVars, diskVars, guessVars>>

\* preprocessing(args, config) for --pwd-format list, lines 1222-1229, with
\* TriePreprocessor.begin: the corpus is read and put into the trie (a
\* DiskBackedTrie asks make_serializer for an intermediate serializer when it
\* closes a branch), then TrieSerializer.fromConfig(config).serialize(
\* self.trie).  A None in the place of the preprocessor raises before the
\* corpus is read; a None in the place of a serializer factory raises when
\* it is called.
Preprocessing ==
    /\ mpc = "loaded" /\ margs.pwd_file
    /\ LET c == config.val
           pre == BasePreprocessorFromConfig(c)
       IN IF pre = None
          THEN mlog' = mlog /\ mpc' = "crashed"
          ELSE IF pre = "Preprocessor"
          THEN mlog' = Append(mlog, "ingest") /\ mpc' = "preprocessed"
          ELSE IF \/ /\ BaseTrieFromConfig(c) = "DiskBackedTrie"
                     /\ getFactory(c, TRUE) = None
                  \/ getFactory(c, FALSE) = None
          THEN mlog' = Append(mlog, "ingest") /\ mpc' = "crashed"
          ELSE /\ mlog' = mlog \o <<"ingest", "serialize">>
               /\ mpc' = "preprocessed"
    /\ UNCHANGED <<margs, config>>
    /\ UNCHANGED <<trieVars, diskVars, guessVars>>

\* train, lines 1235-1240: the model is trained
Train ==
    /\ mpc = "preprocessed"
    /\ mlog' = Append(mlog, "train")
    /\ mpc' = "trained"
    /\ UNCHANGED <<margs, config>>
    /\ UNCHANGED <<trieVars, diskVars, guessVars>>

\* train, lines 1241-1246, and guess, lines 1248-1258: the enumeration is
\* started with the loaded configuration
Enumerate ==
    /\ \/ mpc = "trained"
       \/ mpc = "loaded" /\ ~margs.pwd_file
    /\ margs.enumerate_ofile
    /\ mlog' = Append(mlog, "search")
    /\ mpc' = "done"
    /\ UNCHANGED <<margs, config>>
    /\ UNCHANGED <<trieVars, diskVars, guessVars>>

\* main, lines 1289-1292: nothing (more) to do
MainReturn ==
    /\ ~margs.enumerate_ofile
    /\ \/ mpc = "trained" /\ mpc' = "done"
       \/ mpc = "loaded" /\ ~margs.pwd_file /\ mpc' = "exit"
    /\ UNCHANGED <<margs, config, mlog>>
    /\ UNCHANGED <<trieVars, diskVars, guessVars>>

MainNext ==
    \/ LoadConfig
    \/ Preprocessing
    \/ Train
    \/ Enumerate
    \/ MainReturn

----------------------------------------------------------------------------
(* DiskBackedTrie                                                          *)

\* Python's None against a value: [some, val]
NoKey == [some |-> FALSE, val |-> <<>>]
SomeKey(k) == [some |-> TRUE, val |-> k]
NoNode == [some |-> FALSE, val |-> NewNodeTrie]
SomeNode(t) == [some |-> TRUE, val |-> t]

\* DiskBackedTrie.__init__
NewDiskBackedTrie ==
    [current_node |-> NoNode, current_branch_key |-> NoKey,
     weights |-> NewNodeTrie, keys |-> <<>>]

EmptyStore == [data |-> <<>>, writes |-> <<>>]

NothingSaved == [saved |-> FALSE, keys |-> <<>>, weights |-> NewNodeTrie]

\* self.keys.index(prefix): the position of the first occurrence, from 0
ListIndex(keys, prefix) ==
    (CHOOSE i \in 1..Len(keys) :
        keys[i] = prefix /\ \A j \in 1..(i - 1) : keys[j] # prefix) - 1

\* sanitize: the file name of a partition; ok = FALSE is the failed assert
sanitize(keys, prefix) ==
    IF prefix \in Range(keys) THEN [ok |-> TRUE, name |-> ListIndex(keys, prefix)]
    ELSE [ok |-> FALSE, name |-> 0]

\* make_serializer().serialize(trie): MemoryTrieSerializer keeps the trie
\* itself under the file name, NodeTrieSerializer writes the file
SerializeBranch(st, kind, N, name, t) ==
    [data |-> (name :> (IF kind = "memory"
                        THEN [trie |-> t, bytes |-> <<>>]
                        ELSE [trie |-> NewNodeTrie,
                              bytes |-> do_serialize(NodeTrieIterate(t), N)]))
              @@ st.data,
     writes |-> (name :> (IF name \in DOMAIN st.writes
                          THEN st.writes[name] + 1 ELSE 1)) @@ st.writes]

\* make_serializer().deserialize(): [recs, err]; a missing name is a KeyError
\* (memory) or a failed open (dir)
DeserializeBranch(st, kind, name) ==
    IF name \notin DOMAIN st.data THEN [recs |-> <<>>, err |-> TRUE]
    ELSE IF kind = "memory"
    THEN [recs |-> NodeTrieIterate(st.data[name].trie), err |-> FALSE]
    ELSE deserialize(st.data[name].bytes)

\* The operations below map a world w = [t, s, meta, raised] (the object, the
\* storage, the metadata store, whether an exception is propagating) to the
\* world they leave.

close_branch(w, kind, N) ==
    IF w.t.current_branch_key.some
    THEN LET f == sanitize(w.t.keys, w.t.current_branch_key.val)
         IN IF ~w.t.current_node.some \/ ~f.ok
            THEN [w EXCEPT !.raised = TRUE]                  \* AssertionError
            ELSE [w EXCEPT
                    !.s = SerializeBranch(w.s, kind, N, f.name,
                                          w.t.current_node.val),
                    !.t.current_node = NoNode,
                    !.t.current_branch_key = NoKey]
    ELSE [w EXCEPT !.t.current_node = NoNode, !.t.current_branch_key = NoKey]

open_new_branch(w, key, kind, N) ==
    LET c == close_branch(w, kind, N)
    IN IF c.raised THEN c
       ELSE [c EXCEPT !.t.current_node = SomeNode(NewNodeTrie),
                      !.t.current_branch_key = SomeKey(key),
                      !.t.keys = Append(@, key)]

DiskIncrementOp(w, aword, weight, kind, N) ==
    LET start == SubSeq(aword, 1, Min(fork_length, Len(aword)))
        end == SubSeq(aword, fork_length + 1, Len(aword))
        o == IF SomeKey(start) # w.t.current_branch_key
             THEN open_new_branch(w, start, kind, N) ELSE w
    IN IF o.raised THEN o
       ELSE LET u == [o EXCEPT !.t.weights =
                                 increment_optimized(@, start, weight)]
            IN IF ~u.t.current_node.some
               THEN [u EXCEPT !.raised = TRUE]   \* None has no increment
               ELSE [u EXCEPT !.t.current_node.val =
                                 increment_optimized(@, end, weight)]

finish(w, kind, N) ==
    IF w.t.current_branch_key.some
    THEN LET c == close_branch(w, kind, N)
         IN IF c.raised THEN c
            ELSE [c EXCEPT !.meta = [saved |-> TRUE, keys |-> c.t.keys,
                                     weights |-> c.t.weights]]
    ELSE w

\* DiskBackedTrie.fromIntermediate: the trie a later process builds from the
\* metadata store; get_intermediate_info raises KeyError for a missing key
fromIntermediate(meta) ==
    [raised |-> ~meta.saved,
     t |-> [NewDiskBackedTrie EXCEPT !.keys = meta.keys,
                                     !.weights = meta.weights]]

\* the subitems as they are, without the key
PrependNothing(key, recs) == recs

\* (key + subitem[0], subitem[1]) for every subitem
RECURSIVE PrependKey(_, _)
PrependKey(key, recs) ==
    IF recs = <<>> THEN <<>>
    ELSE << <<key \o Head(recs)[1], Head(recs)[2]>> >> \o PrependKey(key, Tail(recs))

World == [t |-> dbt, s |-> store, meta |-> intermediate, raised |-> FALSE]

NoIterator == [active |-> FALSE, done |-> FALSE, k |-> 0, started_at |-> 0]

DiskInit ==
    /\ dbt = NewDiskBackedTrie
    /\ store = EmptyStore
    /\ intermediate = NothingSaved
    /\ storage_kind \in {"memory", "dir"}
    /\ draised = FALSE
    /\ dincs = <<>>
    /\ it = NoIterator
    /\ dout = <<>>
    /\ dlast = "init"

\* the DiskBackedTrie variables in the specifications that use none
DiskIdle ==
    /\ dbt = NewDiskBackedTrie
    /\ store = EmptyStore
    /\ intermediate = NothingSaved
    /\ storage_kind = "memory"
    /\ draised = FALSE
    /\ dincs = <<>>
    /\ it = NoIterator
    /\ dout = <<>>
    /\ dlast = "init"

\* the NodeTrie / codec variables in the specifications that use none
TrieIdle ==
    /\ trie = NewNodeTrie
    /\ incs = <<>>
    /\ toc_chunk_size = MaxChunk
    /\ file = [exists |-> FALSE, bytes |-> <<>>]
    /\ des = NotRead
    /\ ra = NotRead
    /\ tpc = "idle"

Apply(w) ==
    /\ dbt' = w.t
    /\ store' = w.s
    /\ intermediate' = w.meta
    /\ draised' = w.raised

\* Between two calls on the trie the generator of iterate() is either run to
\* its end or abandoned: increment, finish and iterate are not called while
\* one is suspended.

\* DiskBackedTrie.increment(aword, weight); the results of a finished
\* iteration are dropped
DiskIncrement(aword, weight) ==
    /\ ~draised
    /\ ~it.active
    /\ Len(dincs) < MaxDiskIncs
    /\ Apply(DiskIncrementOp(World, aword, weight, storage_kind, toc_chunk_size))
    /\ dincs' = Append(dincs, [key |-> aword, weight |-> weight,
                                resumed |-> intermediate.saved])
    /\ it' = NoIterator
    /\ dout' = <<>>
    /\ dlast' = "increment"
    /\ UNCHANGED storage_kind
    /\ UNCHANGED <<trieVars, guessVars, mainVars>>

\* DiskBackedTrie.finish()
DiskFinish ==
    /\ ~draised
    /\ ~it.active
    /\ Apply(finish(World, storage_kind, toc_chunk_size))
    /\ dlast' = "finish"
    /\ UNCHANGED <<storage_kind, dincs, it, dout>>
    /\ UNCHANGED <<trieVars, guessVars, mainVars>>

\* iterate(): a new generator is started and advanced to the end of the
\* top-level entries: self.finish(), then every entry of self.weights
DiskIterateBegin ==
    /\ ~draised
    /\ ~it.active
    /\ LET w == finish(World, storage_kind, toc_chunk_size)
       IN /\ Apply(w)
          /\ IF w.raised
             THEN /\ it' = NoIterator
                  /\ dout' = <<>>
             ELSE /\ it' = [active |-> TRUE, done |-> FALSE, k |-> 0,
                            started_at |-> Len(dincs)]
                  /\ dout' = NodeTrieIterate(w.t.weights)
    /\ dlast' = "iterate"
    /\ UNCHANGED <<storage_kind, dincs>>
    /\ UNCHANGED <<trieVars, guessVars, mainVars>>

\* iterate_subtrees: the generator is advanced through the next partition
DiskIteratePartition ==
    /\ ~draised
    /\ it.active
    /\ it.k < Len(dbt.keys)
    /\ LET key == dbt.keys[it.k + 1]
           f == sanitize(dbt.keys, key)
           r == DeserializeBranch(store, storage_kind, f.name)
       IN /\ dbt' = [dbt EXCEPT !.current_branch_key = SomeKey(key)]
          /\ draised' = r.err
          /\ dout' = dout \o PrependKey(key, r.recs)
          /\ it' = IF r.err THEN NoIterator ELSE [it EXCEPT !.k = @ + 1]
    /\ UNCHANGED <<store, intermediate, storage_kind, dincs, dlast>>
    /\ UNCHANGED <<trieVars, guessVars, mainVars>>

\* the generator runs off the end of iterate: self.current_branch_key = None
DiskIterateEnd ==
    /\ ~draised
    /\ it.active
    /\ it.k = Len(dbt.keys)
    /\ dbt' = [dbt EXCEPT !.current_branch_key = NoKey]
    /\ it' = [it EXCEPT !.active = FALSE, !.done = TRUE]
    /\ UNCHANGED <<store, intermediate, storage_kind, draised, dincs, dout, dlast>>
    /\ UNCHANGED <<trieVars, guessVars, mainVars>>

\* the generator is dropped while suspended inside iterate_subtrees:
\* GeneratorExit ends it where it stands
DiskIterateAbandon ==
    /\ ~draised
    /\ it.active
    /\ it.k > 0
    /\ it' = NoIterator
    /\ dout' = <<>>
    /\ UNCHANGED <<dbt, store, intermediate, storage_kind, draised, dincs, dlast>>
    /\ UNCHANGED <<trieVars, guessVars, mainVars>>

DiskNext ==
    \/ \E aword \in DiskCorpus, weight \in DiskWeights : DiskIncrement(aword, weight)
    \/ DiskFinish
    \/ DiskIterateBegin
    \/ DiskIteratePartition
    \/ DiskIterateEnd
    \/ DiskIterateAbandon

InitDisk == DiskInit /\ TrieIdle /\ GuessIdle /\ MainIdle

SpecDisk == InitDisk /\ [][DiskNext]_vars

----------------------------------------------------------------------------
(* Specification SpecGuess: one run of Guesser.do_guessing or of           *)
(* ParallelGuesser.do_guessing, for every configuration and oracle         *)

InitGuess == GuessInit /\ TrieIdle /\ DiskIdle /\ MainIdle

SpecGuess == InitGuess /\ [][GuessNext]_vars

----------------------------------------------------------------------------
(* Specification SpecRecur: the single-process search Guesser.recur('', 1) *)
(* of Guesser.do_guessing, for every oracle and configuration              *)
(*                                                                         *)

RecurNext ==
    \/ RecurPrune
    \/ RecurTooLong
    \/ RecurPredict
    \/ RecurChar
    \/ RecurReturn
    \/ DoGuessingReturn

InitRecur ==
    /\ GuessInit
    /\ ~cfg.parallel_guessing
    /\ seed = << <<>>, Frac(1, 1) >>
    /\ TrieIdle /\ DiskIdle /\ MainIdle

SpecRecur == InitRecur /\ [][RecurNext]_vars

----------------------------------------------------------------------------
(* Specification SpecMain: one run of main(), for every command line and   *)
(* every configuration file                                                *)

InitMain == MainInit /\ TrieIdle /\ DiskIdle /\ GuessIdle

SpecMain == InitMain /\ [][MainNext]_vars

----------------------------------------------------------------------------
(* Specification Spec: a NodeTrie is built by increments, serialized to a   *)
(* file by NodeTrieSerializer, and read back sequentially or by chunks.    *)

TrieInit ==
    /\ trie = NewNodeTrie
    /\ incs = <<>>
    /\ toc_chunk_size \in 1..MaxChunk
    /\ file = [exists |-> FALSE, bytes |-> <<>>]
    /\ des = NotRead
    /\ ra = NotRead
    /\ tpc = "build"

\* NodeTrie.increment(aword, weight)
Increment(aword, weight) ==
    /\ tpc = "build"
    /\ Len(incs) < MaxIncs
    /\ trie' = increment_optimized(trie, aword, weight)
    /\ incs' = Append(incs, [key |-> aword, weight |-> weight])
    /\ UNCHANGED <<toc_chunk_size, file, des, ra, tpc>>
    /\ UNCHANGED <<diskVars, guessVars, mainVars>>

\* TrieSerializer.serialize(trie) with the binary codec
Serialize ==
    /\ tpc = "build"
    /\ file' = [exists |-> TRUE,
                bytes |-> do_serialize(NodeTrieIterate(trie), toc_chunk_size)]
    /\ tpc' = "written"
    /\ UNCHANGED <<trie, incs, toc_chunk_size, des, ra>>
    /\ UNCHANGED <<diskVars, guessVars, mainVars>>

\* the deserialize() generator, run to its end
Deserialize ==
    /\ tpc \in {"written", "truncated"}
    /\ LET r == deserialize(file.bytes)
       IN des' = [done |-> TRUE, recs |-> r.recs, err |-> r.err, order |-> <<>>]
    /\ tpc' = "deserialized"
    /\ UNCHANGED <<trie, incs, toc_chunk_size, file, ra>>
    /\ UNCHANGED <<diskVars, guessVars, mainVars>>

\* the random_access() generator, run to its end; random.shuffle picks order
RandomAccess ==
    /\ tpc = "written"
    /\ LET n == Len(Intervals(file.bytes))
       IN /\ n <= MaxIntervals
          /\ \E order \in Permutations(1..n) :
                LET r == random_access(file.bytes, order)
                IN ra' = [done |-> TRUE, recs |-> r.recs, err |-> r.err,
                          order |-> order]
    /\ tpc' = "shuffled"
    /\ UNCHANGED <<trie, incs, toc_chunk_size, file, des>>
    /\ UNCHANGED <<diskVars, guessVars, mainVars>>

TrieNext ==
    \/ \E aword \in Corpus, weight \in Weights : Increment(aword, weight)
    \/ Serialize
    \/ Deserialize
    \/ RandomAccess

Init == TrieInit /\ DiskIdle /\ GuessIdle /\ MainIdle

Spec == Init /\ [][TrieNext]_vars

----------------------------------------------------------------------------
(* Specification SpecTruncated: as Spec, but the file that deserialize()    *)
(* opens may hold only the first n bytes of what was written.               *)

\* the file ends after its first n bytes, for some n below its length
Truncate ==
    /\ tpc = "written"
    /\ \E n \in 0..(Len(file.bytes) - 1) :
          file' = [file EXCEPT !.bytes = SubSeq(@, 1, n)]
    /\ tpc' = "truncated"
    /\ UNCHANGED <<trie, incs, toc_chunk_size, des, ra>>
    /\ UNCHANGED <<diskVars, guessVars, mainVars>>

TruncatedNext ==
    \/ \E aword \in Corpus, weight \in Weights : Increment(aword, weight)
    \/ Serialize
    \/ Truncate
    \/ Deserialize

InitTruncated == TrieInit /\ DiskIdle /\ GuessIdle /\ MainIdle

SpecTruncated == InitTruncated /\ [][TruncatedNext]_vars

----------------------------------------------------------------------------
(* Claims about NodeTrie and the binary codec, checked under Spec          *)

\* the sum of the weights of the increments whose key starts with prefix p
SumWeights(p) ==
    SumSeq([i \in 1..Len(incs) |->
               IF IsPrefix(p, incs[i].key) THEN incs[i].weight ELSE 0])

\* C1: after any sequence of increments on a fresh trie, the node of every
\* prefix of every key (the root and the full key included) exists and weighs
\* the sum of the weights of the increments whose key starts with that prefix.
C1_PrefixWeightIsSum ==
    \A i \in 1..Len(incs) : \A p \in Prefixes(incs[i].key) :
        /\ p \in DOMAIN trie.weight
        /\ trie.weight[p] = SumWeights(p)

\* C2: serializing the trie with the binary codec and reading the file back
\* with deserialize() yields, without error, the same multiset of
\* (prefix, weight) entries as the trie's own iterate.
C2_RoundTrip ==
    des.done =>
        /\ ~des.err
        /\ SeqToBag(des.recs) = SeqToBag(NodeTrieIterate(trie))

\* a file of five records, one with a two-byte character and a two-byte weight,
\* has been read back
C2_Witness ==
    /\ des.done
    /\ Len(des.recs) = 5
    /\ \E i \in 1..Len(des.recs) : des.recs[i] = << <<233, 10>>, 300 >>

\* the records of chunk i (1-based) of a file of records d in file order
ChunkOf(d, N, i) == SubSeq(d, (i - 1) * N + 1, Min(i * N, Len(d)))

RECURSIVE ChunksInOrder(_, _, _)
ChunksInOrder(d, N, order) ==
    IF order = <<>> THEN <<>>
    ELSE ChunkOf(d, N, Head(order)) \o ChunksInOrder(d, N, Tail(order))

\* C7: for every shuffle of the chunk intervals random_access() yields the
\* same multiset of records as deserialize(), chunk by chunk: the records of
\* one chunk come contiguously and in file order.
C7_RandomAccessSameRecords ==
    ra.done =>
        LET d == deserialize(file.bytes).recs
            n == Len(d) \div toc_chunk_size + 1
        IN /\ ~ra.err
           /\ DOMAIN ra.order = 1..n
           /\ SeqToBag(ra.recs) = SeqToBag(d)
           /\ ra.recs = ChunksInOrder(d, toc_chunk_size,
                                      [k \in 1..n |-> ra.order[k]])

\* five records in chunks of two, read with the last (partial) chunk first
C7_Witness ==
    /\ ra.done
    /\ toc_chunk_size = 2
    /\ Len(ra.recs) = 5
    /\ ra.order[1] = 3

\* the (index, offset) pairs stored from toc_start to the end of the file
RECURSIVE TocPairs(_, _)
TocPairs(f, pos) ==
    IF pos >= Len(f) THEN <<>>
    ELSE LET e == ReadQQ(f, pos)
         IN << <<e.a, e.b>> >> \o TocPairs(f, pos + _fmt_size)

\* the byte offset reached after reading the first m records of the file
OffsetAfter(f, m) == DeserializeLoop(f, _fmt_size, m, <<>>).pos

\* C8: the table of contents written for R records with toc_chunk_size = N
\* holds exactly floor(R/N) checkpoints, for the record indices N, 2N, ...,
\* in increasing order, each with the byte offset right after that record.
C8_TocCheckpoints ==
    file.exists =>
        LET R == Len(NodeTrieIterate(trie))
            N == toc_chunk_size
        IN TocPairs(file.bytes, ReadQQ(file.bytes, 0).b)
             = [k \in 1..(R \div N) |-> <<k * N, OffsetAfter(file.bytes, k * N)>>]

\* five records with toc_chunk_size = 2: the checkpoints are those of 2 and 4
C8_Witness ==
    /\ file.exists
    /\ toc_chunk_size = 2
    /\ Len(NodeTrieIterate(trie)) = 5
    /\ LET t == TocPairs(file.bytes, ReadQQ(file.bytes, 0).b)
       IN Len(t) = 2 /\ t[1][1] = 2 /\ t[2][1] = 4

\* the symbols under which node p has a child
ChildKeys(p) ==
    { c \in 0..255 : Append(p, c) \in DOMAIN trie.weight }

\* C20: iterate('fuzzy') yields exactly one entry for each node that has at
\* least one child (the root, with the empty prefix, included) and none for
\* a childless node; the entry of a node is its prefix with the list of
\* (symbol, child weight) over all its children, symbols ascending.
C20_FuzzyEntries ==
    LET out == iterate(trie, "fuzzy")
    IN /\ \A p \in DOMAIN trie.weight :
             Cardinality({ i \in 1..Len(out) : out[i][1] = p })
                 = IF ChildKeys(p) = {} THEN 0 ELSE 1
       /\ \A i \in 1..Len(out) :
             LET p == out[i][1]
                 l == out[i][2]
             IN /\ p \in DOMAIN trie.weight
                /\ { l[j][1] : j \in 1..Len(l) } = ChildKeys(p)
                /\ \A j \in 1..Len(l) :
                      /\ l[j][2] = trie.weight[Append(p, l[j][1])]
                      /\ \A k \in 1..Len(l) : j < k => l[j][1] < l[k][1]

\* the root got child 233 before child 97, node <<233>> has one child and
\* node <<97>> has none
C20_Witness ==
    /\ trie.ord = << <<233>>, <<233, 10>>, <<97>> >>
    /\ Len(iterate(trie, "fuzzy")) = 2
    /\ iterate(trie, "fuzzy")[1][1] = <<>>

\* C19: increment(key, 0) is a no-op for every key and every trie: it
\* leaves what iterate yields, in both modes, as it was.
C19_ZeroWeightNoOp ==
    [][(\E aword \in Corpus : Increment(aword, 0)) =>
           /\ iterate(trie', "reg") = iterate(trie, "reg")
           /\ iterate(trie', "fuzzy") = iterate(trie, "fuzzy")]_vars

----------------------------------------------------------------------------
(* Claims about DiskBackedTrie, checked under SpecDisk                      *)

\* the sum of the weights of the increments whose key starts with prefix p
DiskSumWeights(p) ==
    SumSeq([i \in 1..Len(dincs) |->
               IF IsPrefix(p, dincs[i].key) THEN dincs[i].weight ELSE 0])

\* how many of the yielded entries carry key k
YieldCount(k) == Cardinality({ j \in 1..Len(dout) : dout[j][1] = k })

\* the increments were all made before the first finish() or iterate()
IncrementsThenFinish == \A i \in 1..Len(dincs) : ~dincs[i].resumed

\* C3: with fork_length = 2, after any sequence of increments, in any order
\* of keys, finish() and then a complete iterate() yield every incremented
\* key exactly once, with the total weight incremented for it.
C3_PartitionDeterminism ==
    (it.done /\ IncrementsThenFinish) =>
        \A i \in 1..Len(dincs) :
            /\ YieldCount(dincs[i].key) = 1
            /\ \E j \in 1..Len(dout) :
                  dout[j] = <<dincs[i].key, DiskSumWeights(dincs[i].key)>>

\* the partition key of a word: aword[:fork_length]
PartitionKey(aword) == SubSeq(aword, 1, Min(fork_length, Len(aword)))

\* the partition keys of the increments, each once, in first-seen order
RECURSIVE FirstSeenKeys(_, _)
FirstSeenKeys(log, seen) ==
    IF log = <<>> THEN seen
    ELSE LET k == PartitionKey(Head(log).key)
         IN FirstSeenKeys(Tail(log),
                          IF k \in Range(seen) THEN seen ELSE Append(seen, k))

\* C4: in every state reached by increment and finish calls the open sub-trie,
\* if any, is that of the last key, the key list holds the partition keys in
\* first-seen order, and no partition storage location was written twice.
C4_OneOpenWrittenOnce ==
    /\ dbt.current_node.some =>
          /\ dbt.keys # <<>>
          /\ dbt.current_branch_key = SomeKey(dbt.keys[Len(dbt.keys)])
    /\ dbt.keys = FirstSeenKeys(dincs, <<>>)
    /\ \A name \in DOMAIN store.writes : store.writes[name] = 1

\* the entries of the stored sub-trie of a partition, each with the partition
\* key put in front
PartitionEntries(key) ==
    PrependKey(key, DeserializeBranch(store, storage_kind,
                                      sanitize(dbt.keys, key).name).recs)

RECURSIVE PartitionBlocks(_)
PartitionBlocks(keys) ==
    IF keys = <<>> THEN <<>>
    ELSE PartitionEntries(Head(keys)) \o PartitionBlocks(Tail(keys))

\* C11: a complete iterate() yields the entries of the top-level trie first
\* and then, for each partition key in first-seen order, the entries of that
\* partition's stored sub-trie as (key + suffix, value): one block for each
\* partition, the blocks not interleaved.
C11_TopLevelThenPartitions ==
    it.done =>
        dout = NodeTrieIterate(dbt.weights)
                 \o PartitionBlocks(FirstSeenKeys(dincs, <<>>))

\* C12: when finish() has returned, after any sequence of increments or
\* none, no partition is open and the metadata store holds the list of
\* partition keys and the top-level trie: fromIntermediate succeeds and
\* gives a trie with these keys and weights.
C12_FinishPersists ==
    (dlast = "finish" /\ ~draised) =>
        /\ ~dbt.current_node.some
        /\ ~dbt.current_branch_key.some
        /\ LET r == fromIntermediate(intermediate)
           IN /\ ~r.raised
              /\ r.t.keys = dbt.keys
              /\ r.t.weights = dbt.weights

\* the keys come grouped by fork prefix: the increments of one prefix form
\* one contiguous run
GroupedByForkPrefix ==
    \A i, j, k \in 1..Len(dincs) :
        (i < j /\ j < k
            /\ PartitionKey(dincs[i].key) = PartitionKey(dincs[k].key)) =>
        PartitionKey(dincs[j].key) = PartitionKey(dincs[i].key)

\* the single NodeTrie that received the increments of log
RECURSIVE NodeTrieOf(_)
NodeTrieOf(log) ==
    IF log = <<>> THEN NewNodeTrie
    ELSE increment_optimized(NodeTrieOf(SubSeq(log, 1, Len(log) - 1)),
                             log[Len(log)].key, log[Len(log)].weight)

\* C25: when the keys are fed grouped by fork prefix, finish() followed by a
\* complete iterate('reg') yields the same multiset of (prefix, weight)
\* entries as a single NodeTrie that received the same increments, and
\* each partition key is in the key list exactly once.
C25_GroupedEqualsNodeTrie ==
    (it.done /\ IncrementsThenFinish /\ GroupedByForkPrefix) =>
        /\ ~draised
        /\ SeqToBag(dout) = SeqToBag(NodeTrieIterate(NodeTrieOf(dincs)))
        /\ \A i, j \in 1..Len(dbt.keys) : dbt.keys[i] = dbt.keys[j] => i = j
        /\ Range(dbt.keys) = { PartitionKey(dincs[i].key) : i \in 1..Len(dincs) }

\* two keys of prefix 'ab' and then one of prefix 'ba' were fed and a
\* complete iteration has run
C25_Witness ==
    /\ it.done /\ IncrementsThenFinish /\ GroupedByForkPrefix
    /\ Len(dincs) = 3
    /\ dincs[1].key # dincs[2].key
    /\ dbt.keys = << <<97, 98>>, <<98, 97>> >>
    /\ Len(dout) >= 5

----------------------------------------------------------------------------
(* Claims about Guesser and ParallelGuesser, checked under SpecGuess       *)

Threshold == cfg.lower_probability_threshold

\* the (candidate, probability) pairs emitted so far
EmittedPairs == { <<emitted[k][2], emitted[k][3]>> : k \in 1..Len(emitted) }

\* the lines process p has emitted, as written, in the order it emitted them
LinesBy(p) ==
    LET sel == SelectSeq(emitted, LAMBDA e : e[1] = p)
    IN [k \in 1..Len(sel) |-> GuessLine(sel[k][2], sel[k][3])]

\* C5: threshold soundness.  No emitted pair has a probability below
\* lower_probability_threshold, and no prefix on which the oracle was queried
\* (and below which the search recursed) had a cumulative probability below
\* the threshold, whatever the oracle, the configuration and the start state.
C5_ThresholdSoundness ==
    /\ \A k \in 1..Len(emitted) : ~FLt(emitted[k][3], Threshold)
    /\ \A x \in expanded : ~FLt(x[3], Threshold)

\* a search from ('', 1) has finished with a positive threshold: it emitted a
\* pair, and below some prefix it expanded there was a continuation whose
\* probability fell below the threshold
C5_Witness ==
    /\ ppc = "done" /\ ~cfg.parallel_guessing
    /\ seed[1] = <<>>
    /\ Threshold.n > 0
    /\ emitted # <<>>
    /\ \E x \in expanded : \E i \in 1..Len(chars) :
          FLt(FMul(conditional_probs(cfg, model, x[2])[i], x[3]), Threshold)

\* the strings over the alphabet without PASSWORD_END, of length <= n
StringsUpTo(n) ==
    UNION { [1..k -> char_bag \ {PASSWORD_END}] : k \in 0..n }

\* the scenario of C9: maximum length 2, an oracle that always answers 1/3
\* per symbol, threshold 0.05, a finished single-process search from ('', 1)
C9_Scenario ==
    /\ ~cfg.parallel_guessing
    /\ cfg.max_len = 2
    /\ model = [x \in Contexts |-> Uniform]
    /\ Threshold = Frac(1, 20)
    /\ seed = << <<>>, Frac(1, 1) >>
    /\ ppc = "done"

\* the product of the oracle's conditional probabilities along s END
PathProb(s) == Frac(1, 3 ^ (Len(s) + 1))

\* every string of length <= 2 followed by END whose probability is >= 0.05,
\* with that probability: END 1/3, aEND 1/9, bEND 1/9
C9_Expected ==
    { <<Append(s, PASSWORD_END), PathProb(s)>> :
        s \in { t \in StringsUpTo(2) : FGe(PathProb(t), Frac(1, 20)) } }

\* C9 as stated: in the scenario, the set of emitted pairs is exactly the
\* set of strings of length <= 2 followed by END whose path probability is
\* >= 0.05, each with that probability.
C9_EndToEnd == C9_Scenario => EmittedPairs = C9_Expected

\* C9, amended: in the scenario and with relevel_not_matching_passwords
\* disabled, the set of emitted pairs is exactly that set.
C9_EndToEndNoRelevel ==
    (C9_Scenario /\ ~cfg.relevel_not_matching_passwords) =>
        EmittedPairs = C9_Expected

\* the scenario has run without releveling and aEND was emitted with 1/9
C9_Witness ==
    /\ C9_Scenario /\ ~cfg.relevel_not_matching_passwords
    /\ << <<97, 10>>, Frac(1, 9) >> \in EmittedPairs

\* the lines of the root search followed by those of the workers 1..k
RECURSIVE MergedLines(_)
MergedLines(k) ==
    IF k = 0 THEN LinesBy(Root) ELSE MergedLines(k - 1) \o LinesBy(k)

\* C6: parallel merge.  When every worker has succeeded and the answer has
\* been collected, the final output holds exactly the lines emitted by the
\* root search followed by the lines of each worker in fork-point order,
\* each once and none dropped.
C6_ParallelMerge ==
    (cfg.parallel_guessing /\ ppc = "done") =>
        real_output = MergedLines(Len(tasks))

\* s < t in the order the search visits strings of one length
LexLess(s, t) ==
    \E k \in 1..Len(s) :
        /\ \A j \in 1..(k - 1) : s[j] = t[j]
        /\ get_char_index(s[k]) < get_char_index(t[k])

\* the (prefix, probability) pairs of fork_length symbols the root search
\* reaches: the continuations of the prefixes it expanded one level above
ReachedAtForkLength ==
    { <<Append(x[2], c), FMul(cond_prob_from_preds(c, conditional_probs(cfg, model, x[2])), x[3])>> :
        x \in { y \in expanded : y[1] = Root /\ Len(y[2]) = fork_length - 1 },
        c \in char_bag \ {PASSWORD_END} }

\* C10: the search of ParallelGuesser itself never expands a prefix of
\* fork_length symbols; every pair it reaches at that depth is recorded once
\* as a fork point, in discovery order; for each fork point there is exactly
\* one task, with its own temporary file, and the worker that runs it is a
\* plain Guesser seeded with the fork point's prefix and probability, which
\* writes to that file only.
C10_ForkPoints ==
    cfg.parallel_guessing =>
        /\ \A x \in expanded : x[1] = Root => Len(x[2]) # fork_length
        /\ \A i \in 1..Len(fork_points) : Len(fork_points[i][1]) = fork_length
        /\ \A i, j \in 1..Len(fork_points) :
              i < j => LexLess(fork_points[i][1], fork_points[j][1])
        /\ ppc # "search" =>
              /\ Range(fork_points) = ReachedAtForkLength
              /\ Len(tasks) = Len(fork_points)
              /\ \A i \in 1..Len(tasks) :
                    /\ tasks[i].node = fork_points[i]
                    /\ tasks[i].ofile = i
                    /\ streams[i].disk \o streams[i].buf = LinesBy(i)
        /\ (proc \in 1..Len(tasks) /\ stack # <<>>) =>
              /\ tasks[proc].status = "running"
              /\ stack[1].astring = tasks[proc].node[1]
              /\ stack[1].prob = tasks[proc].node[2]
        /\ \A x \in expanded :
              x[1] # Root => IsPrefix(tasks[x[1]].node[1], x[2])

\* a parallel run has finished with at least two fork points, and a worker
\* has emitted a line
C10_Witness ==
    /\ cfg.parallel_guessing /\ ppc = "done"
    /\ Len(fork_points) >= 2
    /\ \E k \in 1..Len(emitted) : emitted[k][1] # Root

\* C13: when the main process was interrupted (KeyboardInterrupt) inside
\* do_forking before the workers had completed, every worker that had not
\* returned has been terminated, none is running, and nothing was copied to
\* the final output: neither a worker's lines nor the root's.
C13_InterruptNoMerge ==
    ppc = "interrupted" =>
        /\ \A i \in 1..Len(tasks) : tasks[i].status \in {"done", "terminated"}
        /\ proc = NoProc
        /\ real_output = <<>>

\* the interrupt came while one worker had returned with lines in its file
\* and another had not returned
C13_Witness ==
    /\ ppc = "interrupted"
    /\ \E i \in 1..Len(tasks) : tasks[i].status = "terminated"
    /\ \E j \in 1..Len(tasks) :
          tasks[j].status = "done" /\ streams[tasks[j].ofile].disk # <<>>

\* C14: the main process never waits for ever.  Whenever it waits in
\* do_forking for a worker that has stopped making progress, it has a step of
\* its own by which the wait ends (the only such step is the one that follows
\* pool.join(); a timeout that fired would be one).
C14_NoIndefiniteWait ==
    (ppc = "forking" /\ \E i \in 1..Len(tasks) : tasks[i].status = "hung") =>
        ENABLED CollectAnswer

\* the search was started on a prefix, without PASSWORD_END in it, as
\* guess() and fork_entry_point start it
SeedIsPrefix == \A i \in 1..Len(seed[1]) : seed[1][i] # PASSWORD_END

\* C22: with releveling enabled and a threshold > 0, PASSWORD_END is never
\* emitted after an invalid prefix, and a prefix of max_len symbols is only
\* terminated, never extended: every emitted candidate is a prefix over
\* the alphabet followed by PASSWORD_END, the length of the prefix is in
\* [min_len, max_len], and the oracle is never asked about a longer prefix.
C22_RelevelBounds ==
    (cfg.relevel_not_matching_passwords /\ Threshold.n > 0 /\ SeedIsPrefix) =>
        /\ \A k \in 1..Len(emitted) :
              LET s == SubSeq(emitted[k][2], 1, Len(emitted[k][2]) - 1)
              IN /\ emitted[k][2] = Append(s, PASSWORD_END)
                 /\ \A i \in 1..Len(s) : s[i] \in char_bag \ {PASSWORD_END}
                 /\ Len(s) >= cfg.min_len
                 /\ Len(s) <= cfg.max_len
        /\ \A x \in expanded : Len(x[2]) <= cfg.max_len

\* a finished search from ('', 1) with min_len = 1, max_len = 2 and
\* releveling: the oracle gave PASSWORD_END a positive probability after
\* the empty prefix, a prefix of max_len symbols was expanded, and a
\* candidate of max_len symbols was emitted
C22_Witness ==
    /\ cfg.relevel_not_matching_passwords /\ Threshold.n > 0
    /\ ~cfg.parallel_guessing /\ ppc = "done"
    /\ seed[1] = <<>>
    /\ cfg.min_len = 1 /\ cfg.max_len = 2
    /\ Predict(model, <<>>)[get_char_index(PASSWORD_END)].n > 0
    /\ \E x \in expanded : Len(x[2]) = cfg.max_len
    /\ \E k \in 1..Len(emitted) : Len(emitted[k][2]) = cfg.max_len + 1

\* the (candidate, probability) pairs emitted, in the order of emission
EmittedSeq == [k \in 1..Len(emitted) |-> <<emitted[k][2], emitted[k][3]>>]

\* C24: for the same oracle and configuration, when all workers have
\* succeeded, the multiset of (candidate, probability) pairs emitted by the
\* root search and the workers of the parallel mode equals the multiset the
\* single-process Guesser.recur('', 1) emits: no guess is lost or doubled
\* by cutting the search tree at fork_length.
C24_ParallelEqualsSingle ==
    (cfg.parallel_guessing /\ ppc = "done") =>
        SeqToBag(EmittedSeq) = SeqToBag(recur(cfg, model, <<>>, Frac(1, 1)))

\* a parallel run has finished: the root search emitted a pair, and the
\* workers of two different fork points emitted pairs
C24_Witness ==
    /\ cfg.parallel_guessing /\ ppc = "done"
    /\ \E k \in 1..Len(emitted) : emitted[k][1] = Root
    /\ \E j, k \in 1..Len(emitted) :
          emitted[j][1] # Root /\ emitted[k][1] # Root
              /\ emitted[j][1] # emitted[k][1]

\* C27: ParallelGuesser.guess() completes for every number of fork points:
\* when the root search has found no fork point at all, the run still
\* finishes normally and the final output is exactly what the root search
\* emitted.
C27_NoForkPointFinishes ==
    (cfg.parallel_guessing /\ ppc # "search" /\ Len(fork_points) = 0) =>
        /\ ppc = "done"
        /\ real_output = LinesBy(Root)

\* a worker has raised and the main process is no longer in do_forking on
\* its own account (it was not interrupted)
WorkerFailed ==
    /\ \E i \in 1..Len(tasks) : tasks[i].status = "raised"
    /\ ppc \notin {"search", "forking", "interrupted"}

\* C21: when a forked worker has failed, the failure is surfaced to the
\* caller of guess(), nothing is written to the final output, and the files
\* of the workers that had completed are not deleted.
C21_WorkerFailure ==
    WorkerFailed =>
        /\ ppc = "failed"
        /\ real_output = <<>>
        /\ \A j \in 1..Len(tasks) :
              tasks[j].status = "done" => tasks[j].ofile \notin unlinked

----------------------------------------------------------------------------
(* Claims checked under SpecMain                                           *)

FromFile == margs.source # "none"

Started(what) == \E i \in DOMAIN mlog : mlog[i] = what

\* C15: a configuration whose lower_probability_threshold is <= 0 is
\* rejected when it is loaded; no enumeration is ever started with such a
\* threshold.
C15_ThresholdRejected ==
    (FromFile /\ margs.file_config.lower_probability_threshold.n <= 0) =>
        ~Started("search")

\* C16: a configuration loaded from a file whose fork_length is >= min_len
\* is rejected by validate() when it is loaded, before the corpus is put
\* into a trie and before any search step.
C16_ForkLengthRejected ==
    (FromFile /\ margs.file_config.fork_length >= margs.file_config.min_len) =>
        /\ mpc \in {"start", "rejected"}
        /\ ~config.some
        /\ mlog = <<>>

\* a file whose only fault is its fork_length has been loaded and rejected
C16_Witness ==
    /\ FromFile
    /\ margs.file_config.fork_length >= margs.file_config.min_len
    /\ validate_no_fork_length(margs.file_config)
    /\ margs.pwd_file /\ margs.enumerate_ofile
    /\ mpc = "rejected"

\* C18: an unknown trie implementation name or an unknown serializer type
\* in the configuration stops the run when the configuration is loaded:
\* the run never goes on with such a configuration.
C18_UnknownTypeFatal ==
    (/\ FromFile
     /\ \/ margs.file_config.trie_implementation \notin {None, "trie", "disk"}
        \/ margs.file_config.trie_serializer_type \notin {"reg", "fuzzy"}) =>
        mpc \in {"start", "rejected"}

----------------------------------------------------------------------------
(* Claims checked under SpecTruncated                                      *)

\* the record count in the header of the file
num_records == ReadQQ(file.bytes, 0).a

\* the file ends right after one of its records, before the last of them
CutAtRecordBoundary ==
    /\ ReadQQ(file.bytes, 0).ok
    /\ \E m \in 0..(num_records - 1) :
          /\ Len(DeserializeLoop(file.bytes, _fmt_size, m, <<>>).recs) = m
          /\ OffsetAfter(file.bytes, m) = Len(file.bytes)

\* C17: deserialize() reads exactly recordCount records in file order; when
\* the data ends, or a record is cut short or malformed, before that many
\* records were read (a file cut right after a record included), the read
\* fails with an error and does not end normally with fewer records.
C17_TruncatedFails ==
    des.done =>
        \/ des.err
        \/ /\ ReadQQ(file.bytes, 0).ok
           /\ Len(des.recs) = num_records

----------------------------------------------------------------------------
(* Claims checked under SpecRecur                                          *)

\* the length of the longest prefix on which a call of recur is active
RecursionDepth ==
    IF stack = <<>> THEN 0
    ELSE CHOOSE n \in { Len(stack[i].astring) : i \in 1..Len(stack) } :
            \A i \in 1..Len(stack) : Len(stack[i].astring) <= n

\* an upper bound on the steps a call of recur on a string of len symbols
\* takes: one when it returns at once, else the oracle, the loop over the
\* symbols, a call for every symbol but PASSWORD_END, and the return
RECURSIVE CallCost(_)
CallCost(len) ==
    IF len > cfg.max_len THEN 1
    ELSE 2 + Len(chars) + (Len(chars) - 1) * CallCost(len + 1)

\* an upper bound on the steps the call of frame f has still to take
FrameCost(f) ==
    IF f.pc = "enter" THEN CallCost(Len(f.astring))
    ELSE (Len(chars) - f.i + 1)
         + Cardinality({ k \in f.i..Len(chars) : chars[k] # PASSWORD_END })
             * CallCost(Len(f.astring) + 1)
         + 1

\* an upper bound on the steps the search has still to take
StepsLeft ==
    SumSeq([i \in 1..Len(stack) |-> FrameCost(stack[i])])
        + (IF ppc = "search" THEN 1 ELSE 0)

\* the conditions under which RecurPredict is taken (its other conjuncts
\* assign)
CanPredict ==
    /\ RunsGuesserRecur
    /\ ~BelowThreshold(Top.prob, cfg.lower_probability_threshold)
    /\ ~TooLong(cfg, Top.astring)

\* the search can make a step
CanStep ==
    \/ CanPredict
    \/ ENABLED (RecurPrune \/ RecurTooLong \/ RecurChar \/ RecurReturn
                   \/ DoGuessingReturn)

\* the search terminates: as long as it is not over it can make a step, and
\* every step lowers StepsLeft, a natural number
SearchTerminates ==
    /\ [](StepsLeft \in Nat /\ (ppc = "done" \/ CanStep))
    /\ [][StepsLeft' < StepsLeft]_vars

\* C23: for every oracle and every threshold the single-process search
\* Guesser.recur('', 1) terminates, and the length of the prefix a call of
\* recur is made on never exceeds max_len.
C23_TerminatesWithinMaxLen ==
    /\ SearchTerminates
    /\ [](RecursionDepth <= cfg.max_len)

\* C23, amended: the search terminates, and the length of the prefix a call
\* of recur is made on never exceeds max_len + 1.
C23_TerminatesWithinMaxLenPlusOne ==
    /\ SearchTerminates
    /\ [](RecursionDepth <= cfg.max_len + 1)

\* with threshold 0 and no releveling a call of recur is active on a string
\* of max_len + 1 symbols
C23_Witness ==
    /\ Threshold.n = 0 /\ ~cfg.relevel_not_matching_passwords
    /\ RecursionDepth = cfg.max_len + 1
    /\ Top.pc = "enter"
============================================================================
